---- MODULE Spec2Model ----
(***************************************************************************)
(* crud-mongo-server: the request handler `crud`, the dispatcher           *)
(* `switcher` and the MongoDB collection `items` they act on.              *)
(*                                                                         *)
(* The model follows the latest revision of the server (the one with the   *)
(* `batch` action).  A request is one call of `crud`: it awaits            *)
(* client.connect(), runs `switcher` up to its store calls, awaits them,   *)
(* and awaits client.close() in `finally`.  `client` is the module-level   *)
(* MongoClient, one object used by every request.                          *)
(*                                                                         *)
(* JavaScript values are modelled as follows: an object is a function from *)
(* key names to values, an array is a sequence, and every scalar is a      *)
(* string; the booleans are the two strings JsTrue and JsFalse, so that    *)
(* `typeof v === 'boolean'` and `v === 'true'` remain distinguishable.     *)
(* One logical database is modelled (requests on the other application's   *)
(* database act on a disjoint collection).                                 *)
(***************************************************************************)
EXTENDS Integers, Sequences, FiniteSets, TLC

VARIABLES col, client, pc, req, ops, result, nextOid, faults, trace, res

vars == <<col, client, pc, req, ops, result, nextOid, faults, trace, res>>

-----------------------------------------------------------------------------
(* Bounds *)

\* number of crud calls in one behaviour (all of them may be in flight at once)
MaxRequests == 2
\* longest create / update / delete list of a batch, longest move list
MaxList == 2
\* number of store calls that the store itself rejects in one behaviour
MaxFaults == 1

Reqs == 1..MaxRequests

-----------------------------------------------------------------------------
(* JavaScript values *)

JsTrue == "bool:true"
JsFalse == "bool:false"
Undefined == "undefined"
Null == "null"

\* 'k' in document
Has(document, k) == k \in DOMAIN document

\* document.k
Get(document, k) == IF Has(document, k) THEN document[k] ELSE Undefined

\* the BSON serializer writes an undefined value as null
Bson(v) == IF v = Undefined THEN Null ELSE v

EmptyDoc == << >>

-----------------------------------------------------------------------------
(* The collection `items`: a sequence of stored documents *)

\* filter { id: v }: null matches a document whose id is null or missing
Matches(item, v) ==
    IF Bson(v) = Null
    THEN ~Has(item, "id") \/ item["id"] = Null
    ELSE Has(item, "id") /\ item["id"] = v

FirstMatch(c, v) ==
    IF \E i \in 1..Len(c) : Matches(c[i], v)
    THEN CHOOSE i \in 1..Len(c) :
            Matches(c[i], v) /\ \A j \in 1..(i - 1) : ~Matches(c[j], v)
    ELSE 0

\* a faulty $set: the stored document is replaced by the fields of `set`
SetFieldsReplace(item, set) == [k \in DOMAIN set |-> Bson(set[k])]

\* { $set: set } applied to one stored document
SetFields(item, set) ==
    [k \in DOMAIN item \cup DOMAIN set |->
        IF k \in DOMAIN set THEN Bson(set[k]) ELSE item[k]]

\* col.insertOne(document): the document is stored under the identifier the
\* driver attached to it
StoreInsert(c, document) == Append(c, document)

\* a faulty update, as with { upsert: true }: without a match the fields are
\* inserted as a new document
StoreUpdateUpsert(c, id, set) ==
    LET m == FirstMatch(c, id) IN
    IF m = 0 THEN Append(c, SetFields([id |-> Bson(id)], set))
    ELSE [c EXCEPT ![m] = SetFields(c[m], set)]

\* col.updateOne({ id }, { $set }): the first match is modified, no upsert
StoreUpdate(c, id, set) ==
    LET m == FirstMatch(c, id) IN
    IF m = 0 THEN c
    ELSE [c EXCEPT ![m] = SetFields(c[m], set)]

\* col.deleteOne({ id }): the first match is removed
StoreDelete(c, id) ==
    LET m == FirstMatch(c, id) IN
    IF m = 0 THEN c
    ELSE [i \in 1..(Len(c) - 1) |-> IF i < m THEN c[i] ELSE c[i + 1]]

\* the effect of one store write on the collection
StoreApply(c, o) ==
    CASE o.op = "insertOne" -> StoreInsert(c, o.document)
      [] o.op = "updateOne" -> StoreUpdate(c, o.filter, o.set)
      [] o.op = "deleteOne" -> StoreDelete(c, o.filter)
      [] OTHER -> c

-----------------------------------------------------------------------------
(* switcher: from (actions, document) to the store calls it issues *)

InsertOne(document) == [op |-> "insertOne", document |-> document]
UpdateOne(id, set) == [op |-> "updateOne", filter |-> id, set |-> set]
DeleteOne(id) == [op |-> "deleteOne", filter |-> id]
Find == [op |-> "find"]

\* what switcher does up to its first await:
\*   kind "await"  the calls `calls` are issued and awaited (join "one": a
\*                 single call; "all": Promise.all; "bulk": one bulkWrite
\*                 with ordered: false), then { status, data: '' } returns
\*   kind "return" no call is issued, { status, data: '' } returns
\*   kind "throw"  Error(msg) is thrown, no call is issued
\*   kind "break"  the switch is left by `break`; switcher returns undefined
Await(join, calls, status) ==
    [kind |-> "await", join |-> join, calls |-> calls, status |-> status, msg |-> ""]
Return(status) ==
    [kind |-> "return", join |-> "one", calls |-> << >>, status |-> status, msg |-> ""]
Throw(msg) ==
    [kind |-> "throw", join |-> "one", calls |-> << >>, status |-> "Error", msg |-> msg]
Break ==
    [kind |-> "break", join |-> "one", calls |-> << >>, status |-> "undefined", msg |-> ""]

\* a faulty hot update: the $set also carries the name
HotUpdateWithName(document) ==
    UpdateOne(Get(document, "id"),
              [done |-> Get(document, "done"), name |-> Get(document, "name")])

\* Help desk hot update
HotUpdate(document) ==
    UpdateOne(Get(document, "id"), [done |-> Get(document, "done")])

\* a faulty full update: the $set also carries done
FullUpdateWithDone(document) ==
    UpdateOne(Get(document, "id"),
              [name |-> Get(document, "name"),
               description |-> Get(document, "description"),
               done |-> Get(document, "done")])

\* Help desk full update
FullUpdate(document) ==
    UpdateOne(Get(document, "id"),
              [name |-> Get(document, "name"),
               description |-> Get(document, "description")])

\* Like-a-Trello full update
CardUpdate(document) ==
    UpdateOne(Get(document, "id"),
              [name |-> Get(document, "name"), files |-> Get(document, "files")])

\* a faulty move: every update is filtered by document.id, not by the entry's id
MoveUpdatesByDocumentId(document) ==
    [i \in 1..Len(document["move"]) |->
        UpdateOne(Get(document, "id"),
                  [order |-> Get(document["move"][i], "order"),
                   column |-> Get(document["move"][i], "column")])]

\* Like-a-Trello order/column update: document.move.map(...)
MoveUpdates(document) ==
    [i \in 1..Len(document["move"]) |->
        UpdateOne(Get(document["move"][i], "id"),
                  [order |-> Get(document["move"][i], "order"),
                   column |-> Get(document["move"][i], "column")])]

\* a faulty case 'update': the card rule does not test `order`
caseUpdateIgnoringOrder(document) ==
    IF Has(document, "done")
    THEN Await("one", << HotUpdate(document) >>, "Updated")
    ELSE IF Has(document, "description")
    THEN Await("one", << FullUpdate(document) >>, "Updated")
    ELSE IF Has(document, "files")
    THEN Await("one", << CardUpdate(document) >>, "Updated")
    ELSE IF Has(document, "move")
    THEN Await("all", MoveUpdates(document), "Updated")
    ELSE Return("Updated")

\* case 'update'
caseUpdate(document) ==
    IF Has(document, "done")
    THEN Await("one", << HotUpdate(document) >>, "Updated")
    ELSE IF Has(document, "description")
    THEN Await("one", << FullUpdate(document) >>, "Updated")
    ELSE IF Has(document, "files") /\ ~Has(document, "order")
    THEN Await("one", << CardUpdate(document) >>, "Updated")
    ELSE IF Has(document, "move")
    THEN Await("all", MoveUpdates(document), "Updated")
    ELSE Return("Updated")

\* case 'delete'
caseDelete(document) ==
    IF Has(document, "id")
    THEN Await("one", << DeleteOne(Get(document, "id")) >>, "Removed")
    ELSE Break

\* case 'new'
caseNew(document) == Await("one", << InsertOne(document) >>, "Added")

\* a faulty fetch: the coerced value is written back to the item of document.id
caseFetchWriteBack(document) ==
    Await("all", << Find, UpdateOne(Get(document, "id"), [done |-> JsFalse]) >>, "Fetched")

\* case 'fetch'
caseFetch(document) == Await("one", << Find >>, "Fetched")

\* the documents of `operations`, as Object.entries yields them: a sequence of
\* <<key, item>> pairs in the order of the keys and, under a key, of the list
RECURSIVE Flatten(_)
Flatten(operations) ==
    IF operations = << >> THEN << >>
    ELSE [i \in 1..Len(operations[1].items) |->
             [key |-> operations[1].key, item |-> operations[1].items[i]]]
         \o Flatten(Tail(operations))

\* update: { $set: { name, description, done } } of a batch update entry
BatchSet(item) ==
    [name |-> Get(item, "name"),
     description |-> Get(item, "description"),
     done |-> Get(item, "done")]

\* whether the callback of .map throws for this entry
EntryThrows(key, item) ==
    CASE key = "create" -> FALSE
      [] key = "update" -> ~Has(item, "name")
      [] key = "delete" -> FALSE
      [] OTHER -> TRUE

\* the message of the Error thrown for this entry
EntryError(key, item) ==
    IF key = "update" THEN "No 'name' field in [object Object]"
    ELSE "Unknown operation " \o key

\* a faulty translation: a delete entry is filtered by _id, not by id
EntryCallDeleteByOid(key, item) ==
    CASE key = "create" -> InsertOne(item)
      [] key = "update" -> UpdateOne(Get(item, "id"), BatchSet(item))
      [] key = "delete" -> DeleteOne(Get(item, "_id"))
      [] OTHER -> Find

\* the element of `bulk` that the callback of .map returns for this entry
EntryCall(key, item) ==
    CASE key = "create" -> InsertOne(item)
      [] key = "update" -> UpdateOne(Get(item, "id"), BatchSet(item))
      [] key = "delete" -> DeleteOne(Get(item, "id"))
      [] OTHER -> Find

\* const bulk = Object.entries(document.operations).flatMap(...)
bulk(document) ==
    LET flat == Flatten(document["operations"]) IN
    [i \in 1..Len(flat) |-> EntryCall(flat[i].key, flat[i].item)]

\* a faulty batch: an update entry is translated without the test for `name`
caseBatchUnchecked(document) ==
    IF Has(document, "operations")
    THEN LET flat == Flatten(document["operations"])
         IN  Await("bulk",
                   [i \in 1..Len(flat) |->
                       IF flat[i].key = "update"
                       THEN UpdateOne(Get(flat[i].item, "id"), BatchSet(flat[i].item))
                       ELSE EntryCall(flat[i].key, flat[i].item)],
                   "Batch applied")
    ELSE Throw("No 'operations' field in [object Object]")

\* case 'batch'
caseBatch(document) ==
    IF Has(document, "operations")
    THEN LET flat == Flatten(document["operations"])
             bad == {i \in 1..Len(flat) : EntryThrows(flat[i].key, flat[i].item)}
         IN  IF bad # {}
             THEN LET k == CHOOSE i \in bad : \A j \in bad : i <= j
                  IN  Throw(EntryError(flat[k].key, flat[k].item))
             ELSE Await("bulk", bulk(document), "Batch applied")
    ELSE Throw("No 'operations' field in [object Object]")

\* switch (actions)
switcher(actions, document) ==
    CASE actions = "batch" -> caseBatch(document)
      [] actions = "new" -> caseNew(document)
      [] actions = "update" -> caseUpdate(document)
      [] actions = "delete" -> caseDelete(document)
      [] actions = "fetch" -> caseFetch(document)
      [] OTHER -> Throw("No action was requested")

-----------------------------------------------------------------------------
(* The identifier the driver attaches to an inserted document *)

\* the number of insertOne calls among the first n calls
InsertsBefore(calls, n) == Cardinality({j \in 1..n : calls[j].op = "insertOne"})

\* the calls as the driver sends them: the i-th inserted document carries
\* the i-th fresh identifier
WithIds(calls, oid) ==
    [i \in 1..Len(calls) |->
        IF calls[i].op = "insertOne"
        THEN InsertOne([k \in DOMAIN calls[i].document \cup {"_id"} |->
                 IF k = "_id" /\ ~Has(calls[i].document, "_id")
                 THEN oid + InsertsBefore(calls, i - 1)
                 ELSE calls[i].document[k]])
        ELSE calls[i]]

\* `document` after the driver has handled the calls built from it: the
\* inserted objects are the request's own objects, so they carry the identifier
RECURSIVE MutatedOperations(_, _, _)
MutatedOperations(operations, sent, from) ==
    IF operations = << >> THEN << >>
    ELSE << [key |-> operations[1].key,
             items |-> [i \in 1..Len(operations[1].items) |->
                          IF sent[from + i].op = "insertOne"
                          THEN sent[from + i].document
                          ELSE operations[1].items[i]]] >>
         \o MutatedOperations(Tail(operations), sent, from + Len(operations[1].items))

Mutated(actions, document, sent) ==
    CASE actions = "new" -> sent[1].document
      [] actions = "batch" ->
            [k \in DOMAIN document |->
                IF k = "operations"
                THEN MutatedOperations(document["operations"], sent, 0)
                ELSE document[k]]
      [] OTHER -> document

-----------------------------------------------------------------------------
(* case 'fetch': what is returned for one stored document *)

\* the coercion of the earlier revisions: item.done === 'true'
CoerceLegacy(done) == IF done = "true" THEN JsTrue ELSE JsFalse

\* done: (typeof item.done === 'boolean') ? item.done : (item.done === 'true')
Coerce(done) ==
    IF done \in {JsTrue, JsFalse} THEN done
    ELSE IF done = "true" THEN JsTrue ELSE JsFalse

\* a faulty mapping: the spread keeps _id
FetchItemWithOid(item) ==
    [k \in DOMAIN item \cup {"done"} |->
        IF k = "done" THEN Coerce(Get(item, "done")) ELSE item[k]]

\* const { _id, ...rest } = item; return { ...rest, done: ... }
FetchItem(item) ==
    [k \in (DOMAIN item \ {"_id"}) \cup {"done"} |->
        IF k = "done" THEN Coerce(Get(item, "done")) ELSE item[k]]

FetchData(c) == [i \in 1..Len(c) |-> FetchItem(c[i])]

-----------------------------------------------------------------------------
(* Inputs: the request documents and the collections a request can find *)

\* the sequences over S of length at most n
RECURSIVE SeqsUpTo(_, _)
SeqsUpTo(S, n) ==
    IF n = 0 THEN {<< >>}
    ELSE LET shorter == SeqsUpTo(S, n - 1)
         IN  shorter \cup {Append(q, x) : q \in {t \in shorter : Len(t) = n - 1}, x \in S}

\* the object with the keys K, each with the value that `values` gives it
Pick(values, K) == [k \in K |-> values[k]]

UpdateValues ==
    [id |-> "a", done |-> JsTrue, name |-> "n2", description |-> "d2",
     files |-> "f2", order |-> "7"]

\* update documents of single shape: every combination of the keys that
\* case 'update' tests, on a stored id and on an id that is not stored
FieldDocs ==
    {Pick(UpdateValues, K) : K \in SUBSET DOMAIN UpdateValues}
    \cup {[id |-> "z", done |-> "false"], [id |-> "z", name |-> "n2", description |-> "d2"]}

MoveEntries ==
    {[id |-> "a", order |-> "1", column |-> "doing"],
     [id |-> "b", order |-> "0", column |-> "done"]}

\* update documents { move: [...] }, alone or together with a key of an earlier rule
MoveDocs ==
    {[move |-> m] : m \in SeqsUpTo(MoveEntries, MaxList)}
    \cup {[move |-> << e >>, done |-> JsFalse, id |-> "a"] : e \in MoveEntries}
    \cup {[move |-> << e >>, name |-> "n2", files |-> "f2", id |-> "b"] : e \in MoveEntries}

UpdateDocs == FieldDocs \cup MoveDocs

Ticket(id, done) ==
    [id |-> id, done |-> done, name |-> "n1", description |-> "d1", date |-> "t1"]

Card(id, order, column) ==
    [id |-> id, order |-> order, column |-> column, name |-> "n1", files |-> "f1"]

NewDocs == {Ticket("c", JsTrue), Ticket("a", "true"), Card("c", "2", "todo")}

DeleteDocs == {[id |-> "a"], [id |-> "z"], EmptyDoc, [name |-> "n1"]}

CreateItems == {Ticket("c", JsFalse)}
UpdateItems ==
    {[id |-> "a", name |-> "n3", description |-> "d3", done |-> JsTrue],
     [id |-> "a", description |-> "d3", done |-> JsTrue]}
DeleteItems == {[id |-> "a"]}

Operations(c, u, d) ==
    << [key |-> "create", items |-> c],
       [key |-> "update", items |-> u],
       [key |-> "delete", items |-> d] >>

BatchDocs ==
    {[operations |-> Operations(c, u, d)] :
        c \in SeqsUpTo(CreateItems, MaxList),
        u \in SeqsUpTo(UpdateItems, MaxList),
        d \in SeqsUpTo(DeleteItems, MaxList)}
    \cup {[operations |-> << [key |-> "create", items |-> << Ticket("c", JsFalse) >>],
                            [key |-> "upsert", items |-> << [id |-> "a"] >>] >>],
          EmptyDoc, [id |-> "a", name |-> "n3"]}

\* the pairs (actions, document) that crud is called with
Inputs ==
    {<<"update", d>> : d \in UpdateDocs}
    \cup {<<"batch", d>> : d \in BatchDocs}
    \cup {<<"new", d>> : d \in NewDocs}
    \cup {<<"delete", d>> : d \in DeleteDocs}
    \cup {<<"fetch", EmptyDoc>>, <<"fetch", [id |-> "a"]>>}
    \cup {<<"remove", [id |-> "a"]>>, <<"", EmptyDoc>>}

\* the stored form of a document inserted earlier
Stored(oid, document) ==
    [k \in DOMAIN document \cup {"_id"} |-> IF k = "_id" THEN oid ELSE document[k]]

\* the collections that earlier requests have left behind
InitCols ==
    { << >>,
      << Stored(1, Ticket("a", JsFalse)), Stored(2, Ticket("b", "no")) >>,
      << Stored(1, Card("a", "0", "todo")), Stored(2, Card("b", "1", "todo")) >>,
      << Stored(1, Ticket("a", JsTrue)), Stored(2, Ticket("b", "true")) >> }

-----------------------------------------------------------------------------
(* State *)

\* actions, document: the arguments of crud (document is the live object, which
\* the driver may change); documentCopy: the constant of switcher; join, status:
\* how switcher awaits its calls and what it returns after them; body: the
\* document as it was received (kept for reference, never read by an action);
\* method, origin: req.method in lower case and req.headers.origin, where the
\* HTTP handler is modelled
NoRequest ==
    [actions |-> "", document |-> EmptyDoc, documentCopy |-> EmptyDoc,
     join |-> "one", status |-> "", body |-> EmptyDoc, method |-> "", origin |-> ""]

NoResult == [status |-> "pending"]
\* the value of `await switcher(...)` when switcher ends without a return
UndefinedResult == [status |-> "undefined"]

Envelope(status, data) == [status |-> status, data |-> data]

\* the response of the form.parse callback: res.writeHead(200) and
\* res.end(JSON.stringify(result)), or nothing yet
NoResponse == [code |-> 0]
Response(code, body) == [code |-> code, body |-> body]

Init ==
    /\ col \in InitCols
    /\ client = [open |-> FALSE]
    /\ pc = [r \in Reqs |-> "idle"]
    /\ req = [r \in Reqs |-> NoRequest]
    /\ ops = [r \in Reqs |-> << >>]
    /\ result = [r \in Reqs |-> NoResult]
    /\ nextOid = Len(col) + 1
    /\ faults = 0
    /\ trace = [r \in Reqs |-> << >>]
    /\ res = [r \in Reqs |-> NoResponse]

-----------------------------------------------------------------------------
(* One store call in flight *)

\* st: "pending"  issued, not yet answered
\*     "cut"      still unanswered when client.close() of request `by` ran
\*     "applied"  answered: the store has executed it
\*     "failed"   answered: the store has rejected it
\*     "aborted"  never answered: its connection was closed under it
Pending(call) == [call |-> call, st |-> "pending", by |-> 0]

Rejected(o) == o.st \in {"failed", "aborted"}
Settled(o) == o.st = "applied" \/ Rejected(o)

\* the awaited promise: Promise.all (and a single call) rejects with the first
\* rejection and resolves when every call has resolved; an unordered bulkWrite
\* answers when every operation has been tried, and rejects if one was rejected
Outcome(join, os) ==
    IF join = "bulk"
    THEN IF \E i \in 1..Len(os) : ~Settled(os[i]) THEN "wait"
         ELSE IF \E i \in 1..Len(os) : Rejected(os[i]) THEN "reject" ELSE "resolve"
    ELSE IF \E i \in 1..Len(os) : Rejected(os[i]) THEN "reject"
         ELSE IF \A i \in 1..Len(os) : os[i].st = "applied" THEN "resolve" ELSE "wait"

StoreError == "store error"
EmptyBatchError == "Invalid BulkOperation, Batch cannot be empty"

\* a faulty return: the batch answers with the live document, not with the copy
ReturnedLive(rq, c) ==
    CASE rq.status = "Fetched" -> Envelope("Fetched", FetchData(c))
      [] rq.status = "Batch applied" -> Envelope("Batch applied", rq.document)
      [] OTHER -> Envelope(rq.status, "")

\* the value switcher returns after its await
Returned(rq, c) ==
    CASE rq.status = "Fetched" -> Envelope("Fetched", FetchData(c))
      [] rq.status = "Batch applied" -> Envelope("Batch applied", rq.documentCopy)
      [] OTHER -> Envelope(rq.status, "")

\* the continuation of request r once its calls stand as os: crud returns the
\* value of switcher, or its catch block returns the Error envelope; either
\* way `finally` calls client.close()
Continue(r, os, c) ==
    LET out == IF pc[r] = "awaiting" THEN Outcome(req[r].join, os) ELSE "wait" IN
    /\ pc' = IF out = "wait" THEN pc ELSE [pc EXCEPT ![r] = "closing"]
    /\ result' =
          CASE out = "resolve" -> [result EXCEPT ![r] = Returned(req[r], c)]
            [] out = "reject" -> [result EXCEPT ![r] = Envelope("Error", StoreError)]
            [] OTHER -> result

-----------------------------------------------------------------------------
(* crud *)

\* crud(dbName, actions, document) is called; client.connect() is awaited
Start(r, actions, document) ==
    /\ pc[r] = "idle"
    /\ \A q \in 1..(r - 1) : pc[q] # "idle"
    /\ pc' = [pc EXCEPT ![r] = "connecting"]
    /\ req' = [req EXCEPT ![r] = [NoRequest EXCEPT !.actions = actions,
                                                   !.document = document,
                                                   !.body = document]]
    /\ UNCHANGED <<col, client, ops, result, nextOid, faults, trace, res>>

\* a faulty connect failure: crud returns from its catch block and
\* client.close() is not called
ConnectFailNoClose(r) ==
    /\ pc[r] = "connecting"
    /\ faults < MaxFaults
    /\ faults' = faults + 1
    /\ pc' = [pc EXCEPT ![r] = "done"]
    /\ result' = [result EXCEPT ![r] = Envelope("Error", StoreError)]
    /\ res' = [res EXCEPT ![r] = Response(200, Envelope("Error", StoreError))]
    /\ UNCHANGED <<col, client, req, ops, nextOid, trace>>

\* client.connect() rejects: the catch block returns the Error envelope
ConnectFail(r) ==
    /\ pc[r] = "connecting"
    /\ faults < MaxFaults
    /\ faults' = faults + 1
    /\ pc' = [pc EXCEPT ![r] = "closing"]
    /\ result' = [result EXCEPT ![r] = Envelope("Error", StoreError)]
    /\ UNCHANGED <<col, client, req, ops, nextOid, trace, res>>

\* client.connect() resolves and switcher runs up to its await, where `plan`
\* is what it does up to there
ConnectedWith(r, plan) ==
    /\ pc[r] = "connecting"
    /\ client' = [open |-> TRUE]
    /\ LET actions == req[r].actions
           document == req[r].document
           sent == WithIds(plan.calls, nextOid)
           copy == IF actions = "batch" /\ Has(document, "operations")
                   THEN document ELSE EmptyDoc
       IN  IF plan.kind = "await" /\ plan.calls # << >>
           THEN /\ ops' = [ops EXCEPT ![r] = [i \in 1..Len(sent) |-> Pending(sent[i])]]
                /\ req' = [req EXCEPT ![r].document = Mutated(actions, document, sent),
                                      ![r].documentCopy = copy,
                                      ![r].join = plan.join,
                                      ![r].status = plan.status]
                /\ nextOid' = nextOid + InsertsBefore(sent, Len(sent))
                /\ pc' = [pc EXCEPT ![r] = "awaiting"]
                /\ trace' = [trace EXCEPT ![r] = trace[r] \o << "connect", "call" >>]
                /\ UNCHANGED result
           ELSE /\ result' = [result EXCEPT ![r] =
                      CASE plan.kind = "throw" -> Envelope("Error", plan.msg)
                        [] plan.kind = "break" -> UndefinedResult
                        [] plan.kind = "return" -> Envelope(plan.status, "")
                        [] plan.join = "bulk" -> Envelope("Error", EmptyBatchError)
                        [] OTHER -> Envelope(plan.status, "")]
                /\ req' = [req EXCEPT ![r].documentCopy = copy,
                                      ![r].join = plan.join,
                                      ![r].status = plan.status]
                /\ pc' = [pc EXCEPT ![r] = "closing"]
                /\ trace' = [trace EXCEPT ![r] = Append(trace[r], "connect")]
                /\ UNCHANGED <<ops, nextOid>>
    /\ UNCHANGED <<col, faults, res>>

\* client.connect() resolves and the switcher of the latest revision runs
Connected(r) == ConnectedWith(r, switcher(req[r].actions, req[r].document))

\* the store executes call i of request r
OpApply(r, i) ==
    /\ i \in 1..Len(ops[r])
    /\ ops[r][i].st \in {"pending", "cut"}
    /\ col' = StoreApply(col, ops[r][i].call)
    /\ LET os == [ops[r] EXCEPT ![i].st = "applied"] IN
       /\ ops' = [ops EXCEPT ![r] = os]
       /\ Continue(r, os, col)
    /\ UNCHANGED <<client, req, nextOid, faults, trace, res>>

\* the store rejects call i of request r
OpFail(r, i) ==
    /\ i \in 1..Len(ops[r])
    /\ ops[r][i].st = "pending"
    /\ faults < MaxFaults
    /\ faults' = faults + 1
    /\ LET os == [ops[r] EXCEPT ![i].st = "failed"] IN
       /\ ops' = [ops EXCEPT ![r] = os]
       /\ Continue(r, os, col)
    /\ UNCHANGED <<col, client, req, nextOid, trace, res>>

\* call i of request r is lost with the connection that was closed under it
OpAbort(r, i) ==
    /\ i \in 1..Len(ops[r])
    /\ ops[r][i].st = "cut"
    /\ LET os == [ops[r] EXCEPT ![i].st = "aborted"] IN
       /\ ops' = [ops EXCEPT ![r] = os]
       /\ Continue(r, os, col)
    /\ UNCHANGED <<col, client, req, nextOid, faults, trace, res>>

\* the calls in flight once client.close() of request r has closed the client
CutBy(r) ==
    [q \in Reqs |->
        [i \in 1..Len(ops[q]) |->
            IF ops[q][i].st = "pending"
            THEN [ops[q][i] EXCEPT !.st = "cut", !.by = r]
            ELSE ops[q][i]]]

\* finally: client.close() closes the one client under every call that is
\* still unanswered; crud returns and the callback sends the response
Close(r) ==
    /\ pc[r] = "closing"
    /\ client' = [open |-> FALSE]
    /\ ops' = CutBy(r)
    /\ pc' = [pc EXCEPT ![r] = "done"]
    /\ trace' = [trace EXCEPT ![r] = Append(trace[r], "close")]
    /\ res' = [res EXCEPT ![r] = Response(200, result[r])]
    /\ UNCHANGED <<col, req, result, nextOid, faults>>

\* finally: client.close() rejects; the rejection leaves crud and the
\* form.parse callback, and no response is sent.  Whether the client was
\* closed before the rejection is not determined.
CloseFail(r) ==
    /\ pc[r] = "closing"
    /\ faults < MaxFaults
    /\ faults' = faults + 1
    /\ \/ client' = [open |-> FALSE] /\ ops' = CutBy(r)
       \/ UNCHANGED <<client, ops>>
    /\ pc' = [pc EXCEPT ![r] = "escaped"]
    /\ trace' = [trace EXCEPT ![r] = Append(trace[r], "close")]
    /\ UNCHANGED <<col, req, result, nextOid, res>>

\* the steps of a request after its start
Step(r) ==
    \/ Connected(r)
    \/ ConnectFail(r)
    \/ \E i \in 1..(3 * MaxList) : OpApply(r, i)
    \/ \E i \in 1..(3 * MaxList) : OpFail(r, i)
    \/ \E i \in 1..(3 * MaxList) : OpAbort(r, i)
    \/ Close(r)
    \/ CloseFail(r)

\* one request, any input
Next ==
    \/ \E in \in Inputs : Start(1, in[1], in[2])
    \/ \E r \in Reqs : Step(r)

Spec == Init /\ [][Next]_vars

\* the inputs of the requests that run concurrently
ConcInputs ==
    {<<"update", [id |-> "a", done |-> JsTrue]>>,
     <<"update", [id |-> "a", name |-> "n2", description |-> "d2"]>>,
     <<"new", Ticket("c", JsTrue)>>,
     <<"delete", [id |-> "a"]>>,
     <<"fetch", EmptyDoc>>}

\* up to MaxRequests requests in flight at once
NextConc ==
    \/ \E r \in Reqs : \E in \in ConcInputs : Start(r, in[1], in[2])
    \/ \E r \in Reqs : Step(r)

SpecConc == Init /\ [][NextConc]_vars

\* update requests on one id: hot updates of two values, full updates of two
\* values
PairInputs ==
    {<<"update", [id |-> "a", done |-> JsTrue]>>,
     <<"update", [id |-> "a", done |-> JsFalse]>>,
     <<"update", [id |-> "a", name |-> "n2", description |-> "d2"]>>,
     <<"update", [id |-> "a", name |-> "n3", description |-> "d3"]>>}

\* up to MaxRequests update requests on the same id in flight at once
NextPair ==
    \/ \E r \in Reqs : \E in \in PairInputs : Start(r, in[1], in[2])
    \/ \E r \in Reqs : Step(r)

SpecPair == Init /\ [][NextPair]_vars

-----------------------------------------------------------------------------
(* The revision with the bulk hot update: formidable's fields reach crud     *)
(* as they are when they carry `isBulk`, and case 'update' zips them.        *)
(* The fields are modelled as Object.entries yields them, a sequence of rows *)
(* [key, array, values]: an array value is a row with array = TRUE, any      *)
(* other value a row with array = FALSE and the value as its one element.    *)

Row(key, values) == [key |-> key, array |-> TRUE, values |-> values]
Scalar(key, value) == [key |-> key, array |-> FALSE, values |-> << value >>]

HasField(fields, key) == \E index \in 1..Len(fields) : fields[index].key = key
Field(fields, key) == fields[CHOOSE index \in 1..Len(fields) : fields[index].key = key]

\* if (fieldsMultiple.isBulk): an array is truthy, and so is every value but
\* false, '', null and undefined
isBulk(fields) ==
    /\ HasField(fields, "isBulk")
    /\ \/ Field(fields, "isBulk").array
       \/ Field(fields, "isBulk").values[1] \notin {JsFalse, "", Null, Undefined}

\* firstValues(form, fields): the fields of a multipart form are arrays, each
\* is replaced by its first element; the fields of any other form stay
firstValues(type, fields) ==
    IF type # "multipart" THEN fields
    ELSE [index \in 1..Len(fields) |-> Scalar(fields[index].key, fields[index].values[1])]

\* the fields as the object that case 'update' reads
AsObject(fields) ==
    [key \in {fields[index].key : index \in 1..Len(fields)} |->
        IF Field(fields, key).array THEN Field(fields, key).values
        ELSE Field(fields, key).values[1]]

\* const { isBulk, ...rest } = document
rest(fields) == SelectSeq(fields, LAMBDA row : row.key # "isBulk")

\* whether the zip throws a TypeError: a row that is not an array has no
\* forEach, and a later row longer than the first assigns to documents[i]
\* where there is no document
documentsThrow(rows) ==
    \E index \in 1..Len(rows) :
        \/ ~rows[index].array
        \/ index > 1 /\ Len(rows[index].values) > Len(rows[1].values)

\* a faulty zip: the rows after the first are laid on the documents back to front
documentsReversed(rows) ==
    IF rows = << >> THEN << >>
    ELSE [i \in 1..Len(rows[1].values) |->
            [key \in {rows[index].key : index \in
                        {x \in 1..Len(rows) : x = 1 \/ i <= Len(rows[x].values)}} |->
                IF key = rows[1].key THEN rows[1].values[i]
                ELSE Field(rows, key).values[Len(Field(rows, key).values) + 1 - i]]]

\* Object.entries(rest).forEach((row, index) => row[1].forEach((item, i) => ...)):
\* the first row makes the documents, every later row adds its field to
\* documents[i]
documents(rows) ==
    IF rows = << >> THEN << >>
    ELSE [i \in 1..Len(rows[1].values) |->
            [key \in {rows[index].key : index \in
                        {x \in 1..Len(rows) : x = 1 \/ i <= Len(rows[x].values)}} |->
                Field(rows, key).values[i]]]

\* const bulk = documents.map(...); await col.bulkWrite(bulk, { ordered: false })
bulkHotUpdate(fields) ==
    IF documentsThrow(rest(fields))
    THEN Throw("TypeError")
    ELSE LET docs == documents(rest(fields)) IN
         Await("bulk",
               [i \in 1..Len(docs) |->
                   UpdateOne(Get(docs[i], "id"), [done |-> Get(docs[i], "done")])],
               "Updated")

\* case 'update' of that revision: a hot update whose id is an array is a
\* group of checkbox updates; everything else is as in the latest revision
caseUpdateBulk(fields) ==
    IF HasField(fields, "done") /\ HasField(fields, "id") /\ Field(fields, "id").array
    THEN bulkHotUpdate(fields)
    ELSE caseUpdate(AsObject(fields))

\* the ids and the values of `done` that a form carries
BulkIds == {"a", "b"}
BulkDone == {"true", "false"}

\* the bodies of update requests: [type, fields]
\*   multipart forms, whose fields are all arrays: id and done of the same
\*   length with the marker, in three orders of the keys; of different
\*   lengths with the marker; without the marker
\*   json bodies: arrays with the marker (also empty ones), scalars with the
\*   marker, a full update without it
BulkBodies ==
    {[type |-> "multipart", fields |-> f] :
        f \in UNION {
            { << Row("id", z[1]), Row("done", z[2]), Row("isBulk", << "true" >>) >>,
              << Row("done", z[2]), Row("id", z[1]), Row("isBulk", << "true" >>) >>,
              << Row("isBulk", << "true" >>), Row("id", z[1]), Row("done", z[2]) >> } :
            z \in {y \in (SeqsUpTo(BulkIds, MaxList) \ {<< >>})
                            \X SeqsUpTo(BulkDone, MaxList) : Len(y[1]) = Len(y[2])} }}
    \cup {[type |-> "multipart", fields |-> f] :
            f \in { << Row("id", << "a", "b" >>), Row("done", << "true" >>),
                       Row("isBulk", << "true" >>) >>,
                    << Row("id", << "a" >>), Row("done", << "true", "false" >>),
                       Row("isBulk", << "true" >>) >>,
                    << Row("id", << "a" >>), Row("done", << "true" >>) >>,
                    << Row("id", << "a", "b" >>), Row("done", << "true", "false" >>) >> }}
    \cup {[type |-> "json", fields |-> f] :
            f \in { << Row("id", << "b", "a" >>), Row("done", << JsTrue, JsFalse >>),
                       Scalar("isBulk", JsTrue) >>,
                    << Row("id", << >>), Row("done", << >>), Scalar("isBulk", JsTrue) >>,
                    << Scalar("id", "a"), Scalar("done", JsTrue), Scalar("isBulk", JsTrue) >>,
                    << Scalar("id", "a"), Row("done", << JsTrue >>), Scalar("isBulk", JsTrue) >>,
                    << Scalar("id", "a"), Scalar("name", "n2"),
                       Scalar("description", "d2") >> }}

\* the callback of form.parse calls crud with the fields as they are when they
\* carry isBulk, and with their first values when they do not
StartBulk(r, type, fieldsMultiple) ==
    /\ pc[r] = "idle"
    /\ \A q \in 1..(r - 1) : pc[q] # "idle"
    /\ pc' = [pc EXCEPT ![r] = "connecting"]
    /\ req' = [req EXCEPT ![r] =
                  [NoRequest EXCEPT
                      !.actions = "update",
                      !.document = IF isBulk(fieldsMultiple) THEN fieldsMultiple
                                   ELSE firstValues(type, fieldsMultiple),
                      !.body = fieldsMultiple]]
    /\ UNCHANGED <<col, client, ops, result, nextOid, faults, trace, res>>

\* client.connect() resolves and the switcher of that revision runs
ConnectedBulk(r) == ConnectedWith(r, caseUpdateBulk(req[r].document))

\* one update request of that revision, any body; its calls are one updateOne
\* or one bulkWrite, so no call is left in flight when the client is closed
NextBulk ==
    \/ \E b \in BulkBodies : StartBulk(1, b.type, b.fields)
    \/ ConnectedBulk(1)
    \/ ConnectFail(1)
    \/ \E i \in 1..MaxList : OpApply(1, i)
    \/ \E i \in 1..MaxList : OpFail(1, i)
    \/ Close(1)
    \/ CloseFail(1)

SpecBulk == Init /\ [][NextBulk]_vars

-----------------------------------------------------------------------------
(* Requests one after another: the server handles the next request once the  *)
(* one before has ended, on the collection that one has left behind.         *)

\* the identifiers the driver hands out are capped for the check
MaxOid == 3

\* the requests that follow one another
SeqInputs ==
    {<<"new", Ticket("a", "true")>>,
     <<"new", Card("c", "2", "todo")>>,
     <<"update", [id |-> "a", done |-> JsTrue]>>,
     <<"update", [move |-> << [id |-> "a", order |-> "1", column |-> "doing"],
                              [id |-> "c", order |-> "0", column |-> "done"] >>]>>,
     <<"delete", [id |-> "a"]>>,
     <<"fetch", EmptyDoc>>,
     <<"batch", [operations |-> Operations(<< Ticket("c", JsFalse) >>, << >>,
                                           << [id |-> "a"] >>)]>>}

\* crud is called for the next request; a request that inserts is taken only
\* while identifiers are left
StartNext(r, actions, document) ==
    /\ actions \in {"new", "batch"} => nextOid <= MaxOid
    /\ Start(r, actions, document)

\* the request has ended (its response was sent, or its failure has left the
\* callback): nothing of it is kept
Ended(r) ==
    /\ pc[r] \in {"done", "escaped"}
    /\ pc' = [pc EXCEPT ![r] = "idle"]
    /\ req' = [req EXCEPT ![r] = NoRequest]
    /\ ops' = [ops EXCEPT ![r] = << >>]
    /\ result' = [result EXCEPT ![r] = NoResult]
    /\ trace' = [trace EXCEPT ![r] = << >>]
    /\ res' = [res EXCEPT ![r] = NoResponse]
    /\ UNCHANGED <<col, client, nextOid, faults>>

NextSeq ==
    \/ \E in \in SeqInputs : StartNext(1, in[1], in[2])
    \/ Step(1)
    \/ Ended(1)

SpecSeq == Init /\ [][NextSeq]_vars

-----------------------------------------------------------------------------
(* The HTTP handler: origin check, OPTIONS, and the methods that reach crud  *)

\* the origins the handler answers: the three hosts of each of the applications
\* 'help-desk' and 'like-a-trello'
AllowedOrigins ==
    {"https://help-desk-solarlime.vercel.app", "https://help-desk-legacy.solarlime.dev",
     "https://help-desk.solarlime.dev", "https://like-a-trello-solarlime.vercel.app",
     "https://like-a-trello-legacy.solarlime.dev", "https://like-a-trello.solarlime.dev"}

\* req.headers.origin?.includes('http://localhost:'), over the origins of the model
IncludesLocalhost(origin) == origin \in {"http://localhost:3000"}

\* req.headers.origin: an allowed host, a local one, a foreign one, none
Origins ==
    {"https://help-desk.solarlime.dev", "http://localhost:3000",
     "https://example.com", Undefined}

\* whether the handler goes on after the origin check
PassesOrigin(origin) ==
    \/ origin # Undefined /\ origin \in AllowedOrigins
    \/ origin # Undefined /\ IncludesLocalhost(origin)

\* req.method.toLowerCase()
Methods == {"options", "get", "post", "put", "delete", "patch", "head"}

\* the action of the url and the parsed body of the requests that reach crud
HttpInputs ==
    {<<"update", [id |-> "a", done |-> JsTrue]>>,
     <<"update", [move |-> << [id |-> "a", order |-> "1", column |-> "doing"],
                              [id |-> "b", order |-> "0", column |-> "done"] >>]>>,
     <<"fetch", EmptyDoc>>,
     <<"delete", EmptyDoc>>,
     <<"", EmptyDoc>>}

\* the handler runs up to its return: 403 for an origin that does not pass,
\* 204 for OPTIONS, form.parse for get, post, put and delete; for any other
\* method it returns without a response
Handle(r, origin, method, actions, document) ==
    /\ pc[r] = "idle"
    /\ req' = [req EXCEPT ![r] = [NoRequest EXCEPT !.actions = actions,
                                                   !.body = document,
                                                   !.method = method,
                                                   !.origin = origin]]
    /\ IF ~PassesOrigin(origin)
       THEN /\ res' = [res EXCEPT ![r] = Response(403, "Forbidden to access this page")]
            /\ pc' = [pc EXCEPT ![r] = "done"]
       ELSE IF method = "options"
       THEN /\ res' = [res EXCEPT ![r] = Response(204, "")]
            /\ pc' = [pc EXCEPT ![r] = "done"]
       ELSE IF method \in {"get", "post", "put", "delete"}
       THEN /\ pc' = [pc EXCEPT ![r] = "parsing"]
            /\ UNCHANGED res
       ELSE /\ pc' = [pc EXCEPT ![r] = "returned"]
            /\ UNCHANGED res
    /\ UNCHANGED <<col, client, ops, result, nextOid, faults, trace>>

\* form.parse calls back with the fields; the callback calls crud, which
\* awaits client.connect()
Parsed(r) ==
    /\ pc[r] = "parsing"
    /\ pc' = [pc EXCEPT ![r] = "connecting"]
    /\ req' = [req EXCEPT ![r].document = req[r].body]
    /\ UNCHANGED <<col, client, ops, result, nextOid, faults, trace, res>>

\* the steps of crud when client.close() resolves
StepHttp(r) ==
    \/ Connected(r)
    \/ ConnectFail(r)
    \/ \E i \in 1..MaxList : OpApply(r, i)
    \/ \E i \in 1..MaxList : OpFail(r, i)
    \/ \E i \in 1..MaxList : OpAbort(r, i)
    \/ Close(r)

NextHttp ==
    \/ \E origin \in Origins, method \in Methods, in \in HttpInputs :
          Handle(1, origin, method, in[1], in[2])
    \/ Parsed(1)
    \/ StepHttp(1)

\* the body parse and every store call return, and the event loop runs every
\* callback that is ready
FairHttp == WF_vars(Parsed(1)) /\ WF_vars(StepHttp(1))

SpecHttp == Init /\ [][NextHttp]_vars /\ FairHttp

-----------------------------------------------------------------------------
(* Properties *)

\* the store calls that request r has issued, in the order of issue
Calls(r) == [i \in 1..Len(ops[r]) |-> ops[r][i].call]

\* switcher of request r has run up to its await, return or throw (it never
\* runs when client.connect() rejects)
Dispatched(r) ==
    pc[r] \in {"awaiting", "closing", "done", "escaped"} /\ req[r].status # ""

IsAction(r, a) == pc[r] # "idle" /\ req[r].actions = a

\* c2 is c, or c with one document matching id changed in the fields of `set`
\* and in nothing else
OnlySet(c, c2, id, set) ==
    \/ c2 = c
    \/ /\ Len(c2) = Len(c)
       /\ \E m \in 1..Len(c) :
            /\ Matches(c[m], id)
            /\ \A j \in 1..Len(c) : j # m => c2[j] = c[j]
            /\ DOMAIN c2[m] = DOMAIN c[m] \cup DOMAIN set
            /\ \A k \in DOMAIN c2[m] :
                  c2[m][k] = IF k \in DOMAIN set THEN Bson(set[k]) ELSE c[m][k]

\* C1 (as claimed): an update whose document has a `description` key, whatever
\* its other keys, issues exactly one update, filtered by the document's id,
\* that sets exactly name and description.
C1_AsClaimed ==
    \A r \in Reqs :
        (IsAction(r, "update") /\ Has(req[r].body, "description") /\ Dispatched(r))
        => Calls(r) = << [op |-> "updateOne",
                          filter |-> Get(req[r].body, "id"),
                          set |-> [name |-> Get(req[r].body, "name"),
                                   description |-> Get(req[r].body, "description")]] >>

HotShape(r) ==
    IsAction(r, "update") /\ Has(req[r].body, "done") /\ ~Has(req[r].body, "description")

C2_Issued ==
    \A r \in Reqs :
        (HotShape(r) /\ Dispatched(r))
        => Calls(r) = << [op |-> "updateOne",
                          filter |-> Get(req[r].body, "id"),
                          set |-> [done |-> req[r].body["done"]]] >>

\* C2: an update whose document has `done` and no `description` issues exactly
\* one update, filtered by the document's id, that sets exactly done; whenever
\* the collection changes during the request, one document with that id has
\* changed, in its field done and in no other.
C2_HotUpdateSetsOnlyDone ==
    [][ /\ C2_Issued'
        /\ HotShape(1) =>
              OnlySet(col, col', Get(req[1].body, "id"), [done |-> req[1].body["done"]])
      ]_vars

\* C2 witness: a hot update of the stored ticket "a" has been applied and has
\* returned Updated; the ticket now carries the boolean
C2_Witness ==
    /\ HotShape(1)
    /\ pc[1] = "done"
    /\ result[1] = Envelope("Updated", "")
    /\ Len(ops[1]) = 1 /\ ops[1][1].st = "applied"
    /\ \E m \in 1..Len(col) :
          /\ col[m]["id"] = "a" /\ Has(col[m], "description")
          /\ col[m]["done"] = JsTrue /\ col[m]["name"] = "n1"

\* a move document that no earlier rule of case 'update' takes
MoveShape(r) ==
    /\ IsAction(r, "update")
    /\ Has(req[r].body, "move")
    /\ ~Has(req[r].body, "done")
    /\ ~Has(req[r].body, "description")
    /\ ~(Has(req[r].body, "files") /\ ~Has(req[r].body, "order"))

C3_Issued ==
    \A r \in Reqs :
        (MoveShape(r) /\ Dispatched(r))
        => LET move == req[r].body["move"] IN
           /\ Len(Calls(r)) = Len(move)
           /\ \A i \in 1..Len(move) :
                 Calls(r)[i] = [op |-> "updateOne",
                                filter |-> move[i]["id"],
                                set |-> [order |-> move[i]["order"],
                                         column |-> move[i]["column"]]]

\* C3: a move of N entries that no earlier rule takes issues exactly N updates,
\* the i-th filtered by the id of entry i and setting exactly order and column
\* to the values of entry i; each change of the collection during the request
\* changes one document with the id of an entry, in those two fields only.
C3_MoveIssuesOneUpdatePerEntry ==
    [][ /\ C3_Issued'
        /\ MoveShape(1) =>
              \/ col' = col
              \/ \E i \in 1..Len(req[1].body["move"]) :
                    LET e == req[1].body["move"][i] IN
                    OnlySet(col, col', e["id"],
                            [order |-> e["order"], column |-> e["column"]])
      ]_vars

\* C3 witness: a move of two entries has finished with both updates applied,
\* and the two cards stand in the columns the entries name
C3_Witness ==
    /\ MoveShape(1)
    /\ pc[1] = "done"
    /\ result[1] = Envelope("Updated", "")
    /\ Len(ops[1]) = 2 /\ ops[1][1].st = "applied" /\ ops[1][2].st = "applied"
    /\ Len(col) = 2
    /\ Has(col[1], "files") /\ Has(col[2], "files")
    /\ col[1]["id"] = "a" /\ col[1]["column"] = "doing" /\ col[1]["files"] = "f1"
    /\ col[2]["id"] = "b" /\ col[2]["column"] = "done" /\ col[2]["order"] = "0"

\* C4 (as claimed): when a move request has finished and none of its updates
\* is still in flight, every update that the store did not reject is applied.
C4_AsClaimed ==
    \A r \in Reqs :
        (IsAction(r, "update") /\ req[r].join = "all" /\ pc[r] = "done"
            /\ \A i \in 1..Len(ops[r]) : Settled(ops[r][i]))
        => \A i \in 1..Len(ops[r]) :
              ops[r][i].st # "failed" => ops[r][i].st = "applied"

\* C5 (as claimed): a move or batch of which one operation was rejected by the
\* store while another was applied returns its success envelope.
C5_AsClaimed ==
    \A r \in Reqs :
        (pc[r] = "done" /\ req[r].join \in {"all", "bulk"}
            /\ (\E i \in 1..Len(ops[r]) : ops[r][i].st = "failed")
            /\ (\E i \in 1..Len(ops[r]) : ops[r][i].st = "applied"))
        => result[r].status = (IF req[r].actions = "batch"
                               THEN "Batch applied" ELSE "Updated")

\* a batch document without `operations`, or with an update entry without `name`
BadBatch(r) ==
    /\ IsAction(r, "batch")
    /\ \/ ~Has(req[r].body, "operations")
       \/ \E e \in 1..Len(req[r].body["operations"]) :
             /\ req[r].body["operations"][e].key = "update"
             /\ \E i \in 1..Len(req[r].body["operations"][e].items) :
                   ~Has(req[r].body["operations"][e].items[i], "name")

C6_NothingIssued ==
    \A r \in Reqs :
        (BadBatch(r) /\ Dispatched(r))
        => /\ Calls(r) = << >>
           /\ result[r].status = "Error"

\* C6: a batch without `operations`, or with an update entry lacking `name` at
\* any position, returns an Error envelope without having issued any store
\* call, and the collection does not change during the request.
C6_BadBatchWritesNothing ==
    [][ /\ C6_NothingIssued'
        /\ BadBatch(1) => col' = col
      ]_vars

\* C6 witness: a batch with a create entry, a delete entry and a second update
\* entry without `name` has returned its Error envelope
C6_Witness ==
    /\ BadBatch(1)
    /\ pc[1] = "done"
    /\ result[1].status = "Error"
    /\ Has(req[1].body, "operations")
    /\ Len(req[1].body["operations"][1].items) > 0
    /\ Len(req[1].body["operations"][2].items) = 2
    /\ Has(req[1].body["operations"][2].items[1], "name")
    /\ Len(req[1].body["operations"][3].items) > 0
    /\ Len(col) > 0

\* a batch document { operations: { create, update, delete } } whose update
\* entries all have `name`
ValidBatch(r) ==
    /\ IsAction(r, "batch")
    /\ Has(req[r].body, "operations")
    /\ Len(req[r].body["operations"]) = 3
    /\ req[r].body["operations"][1].key = "create"
    /\ req[r].body["operations"][2].key = "update"
    /\ req[r].body["operations"][3].key = "delete"
    /\ \A i \in 1..Len(req[r].body["operations"][2].items) :
          Has(req[r].body["operations"][2].items[i], "name")

\* the object x without its storage identifier
WithoutOid(x) == [k \in DOMAIN x \ {"_id"} |-> x[k]]

\* C7: a valid batch of c create, u update and d delete entries issues one
\* unordered bulkWrite of exactly c+u+d operations, one per entry: an insert
\* of the entry for each create, an update filtered by the entry's id for each
\* update, a delete filtered by the entry's id for each delete.
C7_BatchOneOperationPerEntry ==
    \A r \in Reqs :
        (ValidBatch(r) /\ Dispatched(r))
        => LET create == req[r].body["operations"][1].items
               update == req[r].body["operations"][2].items
               delete == req[r].body["operations"][3].items
               c == Len(create)
               u == Len(update)
           IN  /\ req[r].join = "bulk"
               /\ Len(Calls(r)) = c + u + Len(delete)
               /\ \A i \in 1..c :
                     /\ Calls(r)[i].op = "insertOne"
                     /\ WithoutOid(Calls(r)[i].document) = create[i]
               /\ \A i \in 1..u :
                     /\ Calls(r)[c + i].op = "updateOne"
                     /\ Calls(r)[c + i].filter = Get(update[i], "id")
               /\ \A i \in 1..Len(delete) :
                     Calls(r)[c + u + i] =
                        [op |-> "deleteOne", filter |-> Get(delete[i], "id")]

\* C7 witness: a batch of two creates, one update and one delete was sent as
\* four operations, all applied, and has returned Batch applied
C7_Witness ==
    /\ ValidBatch(1)
    /\ pc[1] = "done"
    /\ result[1].status = "Batch applied"
    /\ Len(req[1].body["operations"][1].items) = 2
    /\ Len(req[1].body["operations"][2].items) = 1
    /\ Len(req[1].body["operations"][3].items) = 1
    /\ Len(ops[1]) = 4
    /\ \A i \in 1..4 : ops[1][i].st = "applied"

\* C8: the data of a Batch applied response is the request body as it was
\* received: no entry of it carries the identifier that the driver attached
\* to the live objects, and it equals the body field for field.
C8_BatchEchoesBody ==
    \A r \in Reqs :
        (IsAction(r, "batch") /\ result[r].status = "Batch applied")
        => /\ result[r].data = req[r].body
           /\ \A e \in 1..Len(result[r].data["operations"]) :
                 \A i \in 1..Len(result[r].data["operations"][e].items) :
                    ~Has(result[r].data["operations"][e].items[i], "_id")

\* C8 witness: a batch has returned Batch applied while the create entries of
\* its live document carry a storage identifier
C8_Witness ==
    /\ IsAction(1, "batch")
    /\ pc[1] = "done"
    /\ result[1].status = "Batch applied"
    /\ Len(req[1].document["operations"][1].items) = 2
    /\ \A i \in 1..2 : Has(req[1].document["operations"][1].items[i], "_id")
    /\ req[1].document # req[1].body

\* C9 (as claimed): a delete whose document has no `id`, and a request whose
\* action is none of fetch, new, update, delete, batch, return an envelope with
\* status Error and issue no store call.
C9_AsClaimed ==
    \A r \in Reqs :
        (/\ pc[r] = "done"
         /\ \/ IsAction(r, "delete") /\ ~Has(req[r].body, "id")
            \/ req[r].actions \notin {"fetch", "new", "update", "delete", "batch"})
        => /\ result[r].status = "Error"
           /\ Calls(r) = << >>

\* C10 (as claimed): no store call of a request is in flight on a connection
\* that another request closes.
C10_AsClaimed ==
    \A r \in Reqs :
        \A i \in 1..Len(ops[r]) : ops[r][i].by \in {0, r}

\* the number of events e in the trace t
Count(t, e) == Cardinality({i \in 1..Len(t) : t[i] = e})

\* C11: in every request the connection is acquired before any store call is
\* issued, client.close() runs at most once, never before the result of the
\* request stands, and exactly once by the time the request has ended, whether
\* it ended by success, classification failure, store failure or connect failure.
C11_ConnectFirstCloseOnce ==
    \A r \in Reqs :
        /\ Count(trace[r], "close") <= 1
        /\ \A i \in 1..Len(trace[r]) :
              /\ trace[r][i] = "call" => \E j \in 1..(i - 1) : trace[r][j] = "connect"
              /\ trace[r][i] = "close" => i = Len(trace[r]) /\ result[r] # NoResult
        /\ ops[r] # << >> => Count(trace[r], "connect") = 1
        /\ pc[r] \in {"done", "escaped"} => Count(trace[r], "close") = 1

\* C11 witness: a request whose connect was rejected has ended with the Error
\* envelope and one close, next to nothing else in its trace
C11_Witness ==
    /\ pc[1] = "done"
    /\ result[1].status = "Error"
    /\ trace[1] = << "close" >>
    /\ ~client.open

\* C12 (as claimed): no failure leaves crud or the form.parse callback: every
\* request that has ended has returned from crud and has sent its response.
C12_AsClaimed ==
    \A r \in Reqs :
        /\ pc[r] # "escaped"
        /\ pc[r] = "done" => res[r] # NoResponse

\* C13 (as claimed): no two documents of the collection have the same id.
C13_AsClaimed ==
    \A i, j \in 1..Len(col) :
        (i # j /\ Has(col[i], "id") /\ Has(col[j], "id")) => col[i]["id"] # col[j]["id"]

\* call i of request r is an updateOne that the store executes in this step
UpdateApplied(r, i) ==
    /\ i \in 1..Len(ops[r])
    /\ ops[r][i].call.op = "updateOne"
    /\ ops[r][i].st # "applied"
    /\ ops'[r][i].st = "applied"

\* no stored document matches the filter { id: v }
NoneHasId(c, v) == \A m \in 1..Len(c) : ~Matches(c[m], v)

\* C14: no update creates an item: the execution of any update (hot, full
\* ticket, full card, move entry, batch update entry) leaves the number of
\* documents as it is, and leaves the whole collection as it is when no stored
\* document has the id of its filter; a single update that matched nothing
\* still returns Updated.
C14_UpdateNeverCreates ==
    [][ /\ \A r \in Reqs : \A i \in 1..Len(ops[r]) :
              UpdateApplied(r, i)
              => /\ Len(col') = Len(col)
                 /\ NoneHasId(col, ops[r][i].call.filter) => col' = col
        /\ \A r \in Reqs :
              (/\ IsAction(r, "update")' /\ pc'[r] \in {"closing", "done"}
               /\ Len(ops'[r]) = 1 /\ ops'[r][1].st = "applied"
               /\ NoneHasId(col', ops'[r][1].call.filter))
              => result'[r] = Envelope("Updated", "")
      ]_vars

\* C14 witness: a hot update of the id "z", which no document has, was executed
\* and has returned Updated; the two stored tickets are all there is
C14_Witness ==
    /\ IsAction(1, "update")
    /\ pc[1] = "done"
    /\ Len(ops[1]) = 1 /\ ops[1][1].st = "applied" /\ ops[1][1].call.filter = "z"
    /\ result[1] = Envelope("Updated", "")
    /\ Len(col) = 2
    /\ NoneHasId(col, "z")

\* request r is a fetch that has returned the Fetched envelope
Fetched(r) ==
    /\ IsAction(r, "fetch")
    /\ pc[r] \in {"closing", "done", "escaped"}
    /\ result[r].status = "Fetched"

\* C15: fetch coerces `done` one way: a stored boolean is fetched as it is, the
\* stored string "true" is fetched as the boolean true, and any other stored
\* string is fetched as the boolean false.
C15_FetchCoercesDone ==
    \A r \in Reqs :
        Fetched(r)
        => \A i \in 1..Len(col) :
              Has(col[i], "done")
              => result[r].data[i]["done"] =
                    CASE col[i]["done"] = JsTrue -> JsTrue
                      [] col[i]["done"] = JsFalse -> JsFalse
                      [] col[i]["done"] = "true" -> JsTrue
                      [] OTHER -> JsFalse

\* C15 witness: a stored boolean true and a stored string "true" were both
\* fetched as the boolean true
C15_Witness ==
    /\ Fetched(1)
    /\ Len(col) = 2
    /\ Has(col[1], "done") /\ Has(col[2], "done")
    /\ col[1]["done"] = JsTrue /\ result[1].data[1]["done"] = JsTrue
    /\ col[2]["done"] = "true" /\ result[1].data[2]["done"] = JsTrue

\* C16: fetch returns Fetched with one result per stored document, in the
\* order of the collection, each with the fields of its document other than
\* _id; the request document has no part in it.
C16_FetchReturnsEveryDocument ==
    \A r \in Reqs :
        Fetched(r)
        => /\ Len(result[r].data) = Len(col)
           /\ \A i \in 1..Len(col) :
                 /\ DOMAIN result[r].data[i] = (DOMAIN col[i] \ {"_id"}) \cup {"done"}
                 /\ \A k \in DOMAIN col[i] \ {"_id", "done"} :
                       result[r].data[i][k] = col[i][k]

\* C16 witness: a fetch with the document { id: 'a' } has returned both
\* documents of a collection of two
C16_Witness ==
    /\ Fetched(1)
    /\ req[1].body = [id |-> "a"]
    /\ Len(col) = 2
    /\ Len(result[1].data) = 2
    /\ result[1].data[2]["id"] = "b"

\* C17: fetch is read-only: the only call of a fetch is find, and no step of
\* a fetch changes the collection.
C17_FetchIsReadOnly ==
    [][ IsAction(1, "fetch")'
        => /\ col' = col
           /\ \A i \in 1..Len(ops'[1]) : ops'[1][i].call.op = "find" ]_vars

\* C17 witness: a fetch over a legacy string value of `done` has completed and
\* the stored value is still the string
C17_Witness ==
    /\ Fetched(1)
    /\ pc[1] = "done"
    /\ Len(col) = 2
    /\ Has(col[1], "done") /\ Has(col[2], "done")
    /\ col[2]["done"] = "no"
    /\ result[1].data[2]["done"] = JsFalse

\* the document has none of the shapes of case 'update'
NoShape(document) ==
    /\ ~Has(document, "done")
    /\ ~Has(document, "description")
    /\ ~Has(document, "move")
    /\ (~Has(document, "files") \/ Has(document, "order"))

\* C18: an update whose document has none of the shapes (no done, no
\* description, no move, and no files or files together with order) issues no
\* store call, leaves the collection as it is, and returns Updated.
C18_ShapelessUpdateIsNoOp ==
    [][ \A r \in Reqs :
          (IsAction(r, "update")' /\ NoShape(req'[r].body))
          => /\ col' = col
             /\ ops'[r] = << >>
             /\ Dispatched(r)' => result'[r] = Envelope("Updated", "") ]_vars

\* C18 witness: an update with files and order, and nothing else that makes a
\* shape, has returned Updated without a store call
C18_Witness ==
    /\ IsAction(1, "update")
    /\ Has(req[1].body, "files") /\ Has(req[1].body, "order")
    /\ NoShape(req[1].body)
    /\ pc[1] = "done"
    /\ ops[1] = << >>
    /\ Len(col) = 2
    /\ result[1] = Envelope("Updated", "")

\* the fields that the update paths name: hot, full ticket, full card, move
\* entry, batch update entry
NamedFields ==
    { {"done"}, {"name", "description"}, {"name", "files"}, {"order", "column"},
      {"name", "description", "done"} }

\* C19: the execution of any update (hot, full ticket, full card, move entry,
\* batch update entry) changes at most one document, one that matches the
\* filter id, and on it only the fields the update names; the named fields are
\* those of one update path and never include id, so the id of every stored
\* document stays as it is.
C19_UpdateSetsOnlyNamedFields ==
    [][ \A r \in Reqs : \A i \in 1..Len(ops[r]) :
          UpdateApplied(r, i)
          => LET call == ops[r][i].call IN
             /\ DOMAIN call.set \in NamedFields
             /\ OnlySet(col, col', call.filter, call.set)
             /\ Len(col') = Len(col)
             /\ \A m \in 1..Len(col) :
                   /\ Has(col'[m], "id") = Has(col[m], "id")
                   /\ Has(col[m], "id") => col'[m]["id"] = col[m]["id"]
                   /\ ~Matches(col[m], call.filter) => col'[m] = col[m] ]_vars

\* C19 witness: a full ticket update of the item "a" has changed its name and
\* description; its id, done and date, and the item "b", are as they were
C19_Witness ==
    /\ IsAction(1, "update")
    /\ pc[1] = "done"
    /\ Len(ops[1]) = 1 /\ ops[1][1].st = "applied"
    /\ DOMAIN ops[1][1].call.set = {"name", "description"}
    /\ Len(col) = 2
    /\ Has(col[1], "done") /\ Has(col[2], "done")
    /\ col[1]["id"] = "a" /\ col[1]["name"] = "n2" /\ col[1]["done"] = JsFalse
    /\ col[1]["date"] = "t1"
    /\ col[2] = Stored(2, Ticket("b", "no"))

\* the body of request r carries the bulk marker and, beside it, the parallel
\* arrays id and done
BulkMarked(r) ==
    /\ pc[r] # "idle"
    /\ isBulk(req[r].body)
    /\ {req[r].body[index].key : index \in 1..Len(req[r].body)} = {"id", "done", "isBulk"}
    /\ Field(req[r].body, "id").array
    /\ Field(req[r].body, "done").array
    /\ Len(Field(req[r].body, "id").values) = Len(Field(req[r].body, "done").values)

\* C20: when the body carries the bulk marker, the parallel arrays id and done
\* are zipped by position, in input order: document i is exactly
\* { id: id[i], done: done[i] }, the marker is no field of it, and the calls
\* issued are one bulkWrite of one update per document, filtered by id[i]
\* and setting exactly done[i].
C20_BulkZipsByPosition ==
    \A r \in Reqs :
        (BulkMarked(r) /\ Dispatched(r))
        => LET id == Field(req[r].body, "id").values
               done == Field(req[r].body, "done").values
           IN  /\ documents(rest(req[r].body))
                    = [i \in 1..Len(id) |-> [id |-> id[i], done |-> done[i]]]
               /\ req[r].join = "bulk"
               /\ Calls(r)
                    = [i \in 1..Len(id) |-> UpdateOne(id[i], [done |-> done[i]])]

\* C20 witness: the form done=false,true id=b,a with the marker has been zipped
\* into updates of "b" to false and of "a" to true, and both were executed
C20_Witness ==
    /\ BulkMarked(1)
    /\ pc[1] = "done"
    /\ req[1].body[1] = Row("done", << "false", "true" >>)
    /\ req[1].body[2] = Row("id", << "b", "a" >>)
    /\ Calls(1) = << UpdateOne("b", [done |-> "false"]), UpdateOne("a", [done |-> "true"]) >>
    /\ result[1] = Envelope("Updated", "")
    /\ Len(col) = 2
    /\ Has(col[1], "done") /\ Has(col[2], "done")
    /\ col[1]["id"] = "a" /\ col[1]["done"] = "true"
    /\ col[2]["id"] = "b" /\ col[2]["done"] = "false"

\* request r is a delete with an id that has returned Removed
Removed(r) ==
    /\ IsAction(r, "delete")
    /\ Has(req[r].body, "id")
    /\ pc[r] \in {"closing", "done", "escaped"}
    /\ result[r].status = "Removed"

\* C21 (as claimed): once a delete with an id has returned Removed, no document
\* of the collection has that id.
C21_AsClaimed ==
    \A r \in Reqs :
        Removed(r) => \A m \in 1..Len(col) : ~Matches(col[m], req[r].body["id"])

\* the fields that the update request r writes, by its body: a hot update
\* writes done, a full update writes name and description
Writes(r) ==
    IF Has(req[r].body, "done")
    THEN [done |-> req[r].body["done"]]
    ELSE [name |-> Get(req[r].body, "name"),
          description |-> Get(req[r].body, "description")]

\* the requests that have started
Started == {r \in Reqs : pc[r] # "idle"}

\* at least two update requests on the id v have started, and the one store
\* call of each of them has succeeded
AllSucceeded(v) ==
    /\ Cardinality(Started) >= 2
    /\ \A r \in Started :
          /\ IsAction(r, "update")
          /\ Get(req[r].body, "id") = v
          /\ Len(ops[r]) = 1
          /\ ops[r][1].st = "applied"

\* c is what the writes of the started requests on the id v make of c0: the
\* first document with that id has, in each field that requests write, a
\* value that one of them wrote there, and every other field and document is
\* as in c0
WrittenFrom(c0, c, v) ==
    /\ Len(c) = Len(c0)
    /\ \A m \in 1..Len(c0) :
          IF m # FirstMatch(c0, v) THEN c[m] = c0[m]
          ELSE /\ DOMAIN c[m] = DOMAIN c0[m] \cup UNION {DOMAIN Writes(r) : r \in Started}
               /\ \A k \in DOMAIN c[m] :
                     LET writers == {r \in Started : k \in DOMAIN Writes(r)} IN
                     IF writers = {} THEN c[m][k] = c0[m][k]
                     ELSE c[m][k] \in {Writes(r)[k] : r \in writers}

\* C22: when concurrent update requests on the same id have all succeeded, in
\* whatever order their store calls were executed, the document has in every
\* field written by requests a value that one of those requests wrote (both
\* values when a hot and a full update write disjoint fields, one of the two
\* when both write the same field), and no other field or document differs
\* from what the requests found.
C22_ConcurrentUpdatesLastWriteWins ==
    AllSucceeded("a") => \E c0 \in InitCols : WrittenFrom(c0, col, "a")

\* C22 witness: a hot update and a full update of the item "a" ran at once, both
\* succeeded, and the item carries the done of the one and the name and
\* description of the other
C22_Witness ==
    /\ AllSucceeded("a")
    /\ pc[1] = "done" /\ pc[2] = "done"
    /\ req[1].body = [id |-> "a", done |-> JsTrue]
    /\ req[2].body = [id |-> "a", name |-> "n2", description |-> "d2"]
    /\ ops[2][1].by # 0
    /\ Len(col) = 2
    /\ Has(col[1], "done") /\ Has(col[1], "description")
    /\ col[1]["done"] = JsTrue /\ col[1]["name"] = "n2" /\ col[1]["description"] = "d2"
    /\ col[2] = Stored(2, Ticket("b", "no"))

\* C23 (as claimed): every request that passes the origin check, whatever its
\* method, eventually has a response, given that the body parse and every
\* store call return.
C23_AsClaimed ==
    \A r \in Reqs :
        (pc[r] # "idle" /\ PassesOrigin(req[r].origin)) ~> (res[r] # NoResponse)

\* the items that the requests following one another insert, by `new` and by
\* a batch create
Inserted ==
    {in[2] : in \in {x \in SeqInputs : x[1] = "new"}} \cup {Ticket("c", JsFalse)}

\* C24 (as claimed): an item inserted by `new` or by a batch create and then
\* fetched comes back with exactly the fields it was inserted with and their
\* values, but for the coercion of a `done` it has; a card inserted without
\* `done` comes back without `done`.
C24_AsClaimed ==
    \A r \in Reqs :
        Fetched(r)
        => \A i \in 1..Len(col) :
              WithoutOid(col[i]) \in Inserted
              => result[r].data[i]
                    = [k \in DOMAIN WithoutOid(col[i]) |->
                          IF k = "done" THEN Coerce(col[i][k]) ELSE col[i][k]]

====
